---- MODULE Spec2Model ----
(***************************************************************************)
(* disk_cpu_load.py: flush the block device's buffers, read /proc/stat,    *)
(* read the disk with dd, read /proc/stat again, compute the CPU load      *)
(* between the two readings and compare it with --max-load.                *)
(*                                                                         *)
(* Text is a sequence of one-character strings.  The alphabet of the       *)
(* modelled /proc/stat contents is: the letters of the line heads, the     *)
(* decimal digits, "+", "-", "x", the space and the newline "\n".          *)
(* A Python value that may be None (or not yet assigned) is a sequence of  *)
(* length 0 (None) or 1 (the value).                                       *)
(***************************************************************************)
EXTENDS Integers, Sequences, FiniteSets, TLC

VARIABLES
    pc,          \* position of the __main__ block
    max_load,    \* cli_args.max_load
    verbose,     \* cli_args.verbose
    stat_file,   \* current content of STAT_FILE_PATH (environment)
    flush_res,   \* how "blockdev --flushbufs" ended, <<>> before it ran
    read_res,    \* how "dd" ended, <<>> before it ran
    start_load,  \* <<snapshot>> once assigned (line 128)
    end_load,    \* <<snapshot>> once assigned (line 148)
    cpu_load,    \* <<load>> once assigned (line 150)
    out,         \* what was printed on stdout, one tag per print call
    error,       \* the uncaught exception that ended the run, or "none"
    exit_code,   \* <<status>> once the process has ended
    trace        \* the calls made so far, in order, with their values

vars == <<pc, max_load, verbose, stat_file, flush_res, read_res, start_load,
          end_load, cpu_load, out, error, exit_code, trace>>

----------------------------------------------------------------------------
(* Bounds of the model.                                                    *)

\* largest exit status a subprocess reports
MaxRc == 2
\* largest value of the user and idle counters of an enumerated snapshot
MaxCounter == 4
\* largest value of a counter after the idle counter
MaxExtra == 1
\* largest number of counters of an enumerated snapshot
MaxFields == 5
\* largest number of fields on the first-token-"cpu" line of an enumerated file
MaxTokens == 3
\* largest number of lines before the first-token-"cpu" line
MaxPrefixLines == 1

\* the default of --max-load
DefaultMaxLoad == 30

----------------------------------------------------------------------------
(* Text helpers.                                                           *)

NL == "\n"
SP == " "

DigitChars == <<"0", "1", "2", "3", "4", "5", "6", "7", "8", "9">>

IsDigit(c) == \E i \in 1..10 : DigitChars[i] = c

DigitVal(c) == (CHOOSE i \in 1..10 : DigitChars[i] = c) - 1

\* index of the first occurrence of c in s, Len(s) + 1 when there is none
FirstIndex(s, c) ==
    IF \E i \in 1..Len(s) : s[i] = c
    THEN CHOOSE i \in 1..Len(s) : s[i] = c /\ \A j \in 1..(i - 1) : s[j] # c
    ELSE Len(s) + 1

\* str.split(sep) with a one-character separator: empty pieces are kept
RECURSIVE SplitOn(_, _)
SplitOn(s, sep) ==
    LET i == FirstIndex(s, sep)
    IN  IF i > Len(s)
        THEN <<s>>
        ELSE <<SubSeq(s, 1, i - 1)>> \o SplitOn(SubSeq(s, i + 1, Len(s)), sep)

\* filter("".__ne__, pieces)
RECURSIVE FilterNonEmpty(_)
FilterNonEmpty(pieces) ==
    IF pieces = <<>>
    THEN <<>>
    ELSE (IF Head(pieces) = <<>> THEN <<>> ELSE <<Head(pieces)>>)
         \o FilterNonEmpty(Tail(pieces))

\* value of a non-empty sequence of decimal digits
RECURSIVE DigitsValue(_)
DigitsValue(ds) ==
    IF ds = <<>>
    THEN 0
    ELSE DigitsValue(SubSeq(ds, 1, Len(ds) - 1)) * 10 + DigitVal(ds[Len(ds)])

AllDigits(ds) == ds # <<>> /\ \A i \in 1..Len(ds) : IsDigit(ds[i])

\* int(tok): <<n>>, or <<>> when int raises ValueError.  Over the model's
\* alphabet int accepts an optional sign followed by one or more digits.
PyInt(tok) ==
    IF AllDigits(tok)
    THEN <<DigitsValue(tok)>>
    ELSE IF tok # <<>> /\ tok[1] \in {"+", "-"} /\ AllDigits(Tail(tok))
         THEN <<(IF tok[1] = "-" THEN -1 ELSE 1) * DigitsValue(Tail(tok))>>
         ELSE <<>>

\* re.match("cpu .*", text): <<match.group()>>, or <<>> for None.  re.match
\* anchors at the start of the text and "." does not match a newline.
ReMatchCpu(text) ==
    IF Len(text) >= 4 /\ SubSeq(text, 1, 4) = <<"c", "p", "u", SP>>
    THEN <<SubSeq(text, 1, FirstIndex(text, NL) - 1)>>
    ELSE <<>>

\* MapInt that drops the tokens int rejects instead of raising
RECURSIVE MapIntSkipBad(_)
MapIntSkipBad(toks) ==
    IF toks = <<>>
    THEN [err |-> "none", val |-> <<>>]
    ELSE [err |-> "none",
          val |-> PyInt(Head(toks)) \o MapIntSkipBad(Tail(toks)).val]

\* list(map(int, toks)): the integers, or ValueError at the first bad token
RECURSIVE MapInt(_)
MapInt(toks) ==
    IF toks = <<>>
    THEN [err |-> "none", val |-> <<>>]
    ELSE LET n == PyInt(Head(toks))
             rest == MapInt(Tail(toks))
         IN  IF n = <<>> \/ rest.err # "none"
             THEN [err |-> "ValueError", val |-> <<>>]
             ELSE [err |-> "none", val |-> n \o rest.val]

\* get_cpu_load() on a STAT_FILE_PATH holding text (the file can be opened
\* and read)
get_cpu_load(text) ==
    LET match_cpu_stats == ReMatchCpu(text)
    IN  IF match_cpu_stats = <<>>
        THEN [err |-> "AttributeError", val |-> <<>>]
        ELSE MapInt(FilterNonEmpty(Tail(SplitOn(match_cpu_stats[1], SP))))

----------------------------------------------------------------------------
(* compute_cpu_load.                                                       *)

RECURSIVE Sum(_)
Sum(s) == IF s = <<>> THEN 0 ELSE Head(s) + Sum(Tail(s))

\* division that rounds toward zero, as C's / does
PyTruncDiv(a, b) ==
    LET q == (IF a < 0 THEN -a ELSE a) \div (IF b < 0 THEN -b ELSE b)
    IN  IF (a < 0) = (b < 0) THEN q ELSE -q

\* Python's a // b for b # 0: the quotient rounded toward minus infinity
PyFloorDiv(a, b) == IF b > 0 THEN a \div b ELSE (-a) \div (-b)

\* index of the idle counter, 1-based (end_load[3] in Python)
IdleIndex == 4

\* compute_cpu_load taking the idle counter one place too far (index 4)
compute_cpu_load_idle4(start, end) ==
    IF Len(start) < IdleIndex + 1 \/ Len(end) < IdleIndex + 1
    THEN [err |-> "IndexError", val |-> 0]
    ELSE LET diff_idle == end[IdleIndex + 1] - start[IdleIndex + 1]
             diff_total == Sum(end) - Sum(start)
             diff_used == diff_total - diff_idle
         IN  [err |-> "none",
              val |-> IF diff_total = 0
                      THEN 0
                      ELSE PyFloorDiv(diff_used * 100, diff_total)]

\* compute_cpu_load(start, end, verbose_mode): the value returned, or
\* IndexError when a list has no element 3
compute_cpu_load(start, end) ==
    IF Len(start) < IdleIndex \/ Len(end) < IdleIndex
    THEN [err |-> "IndexError", val |-> 0]
    ELSE LET diff_idle == end[IdleIndex] - start[IdleIndex]
             start_total == Sum(start)
             end_total == Sum(end)
             diff_total == end_total - start_total
             diff_used == diff_total - diff_idle
         IN  [err |-> "none",
              val |-> IF diff_total = 0
                      THEN 0
                      ELSE PyFloorDiv(diff_used * 100, diff_total)]

----------------------------------------------------------------------------
(* run_check_subprocess.                                                   *)

\* How a child process can end: it exits with status rc, or it could not be
\* started at all (subprocess.run raises OSError, there is no status).
Outcomes ==
    {[spawned |-> TRUE, rc |-> r] : r \in 0..MaxRc}
        \cup {[spawned |-> FALSE, rc |-> 0]}

Succeeded(o) == o.spawned /\ o.rc = 0

\* run_check_subprocess without check=True: a non-zero status raises nothing
run_unchecked_subprocess(o) ==
    [exit |-> <<>>, err |-> IF o.spawned THEN "none" ELSE "OSError"]

\* run_check_subprocess(**kwargs) when the child ends as o.
\* exit: <<status>> when sys.exit is called; err: the exception that leaves
\* the function uncaught.  subprocess.run(check=True) raises
\* CalledProcessError for a non-zero status, before line 109 assigns res_run.
run_check_subprocess(o) ==
    LET raised == IF ~o.spawned THEN "OSError"
                  ELSE IF o.rc # 0 THEN "CalledProcessError"
                  ELSE "none"
        res_run == IF raised = "none" THEN <<o>> ELSE <<>>
    IN  IF raised = "CalledProcessError"
        THEN [exit |-> IF res_run # <<>> THEN <<res_run[1].rc>> ELSE <<1>>,
              err |-> "none"]
        ELSE [exit |-> <<>>, err |-> raised]

----------------------------------------------------------------------------
(* Inputs: contents of STAT_FILE_PATH, snapshots, options.                 *)

RECURSIVE NatToChars(_)
NatToChars(n) ==
    IF n < 10
    THEN <<DigitChars[n + 1]>>
    ELSE NatToChars(n \div 10) \o <<DigitChars[(n % 10) + 1]>>

\* " f1 f2 ...": every counter preceded by one space
RECURSIVE FieldsText(_)
FieldsText(snap) ==
    IF snap = <<>>
    THEN <<>>
    ELSE <<SP>> \o NatToChars(Head(snap)) \o FieldsText(Tail(snap))

\* the kernel's layout for the counters snap: the aggregate line first
\* ("cpu", two spaces, the counters), then a per-core line
StatText(snap) ==
    <<"c", "p", "u", SP>> \o FieldsText(snap) \o <<NL>>
        \o <<"c", "p", "u", "0">> \o FieldsText(snap) \o <<NL>>

\* the snapshots of the run's well-formed files; the first two are the
\* start and end of a 50 percent load, the last has no idle counter
RunSnapshots ==
    {<<10, 0, 0, 90, 0>>, <<20, 0, 0, 100, 0>>, <<20, 0, 0, 110, 0>>,
     <<1, 2, 3>>}

\* a file whose aggregate line stands after a per-core line, and one with
\* a field that is no number
RunBadFiles ==
    {<<"c", "p", "u", "0", SP, "1", SP, "2", SP, "3", SP, "4", NL,
       "c", "p", "u", SP, "1", SP, "2", SP, "3", SP, "4", NL>>,
     <<"c", "p", "u", SP, "1", SP, "x", SP, "3", SP, "4", NL>>}

RunStatFiles == {StatText(s) : s \in RunSnapshots} \cup RunBadFiles

MaxLoads == {DefaultMaxLoad, 50}

\* enumerated snapshots: user and idle counters up to MaxCounter, nice and
\* system 0, the counters after idle all equal and up to MaxExtra, cut to
\* every length up to MaxFields
FullSnapshot(u, i, x) ==
    [k \in 1..MaxFields |->
        IF k = 1 THEN u
        ELSE IF k = IdleIndex THEN i
        ELSE IF k > IdleIndex THEN x
        ELSE 0]

EnumSnapshots ==
    {SubSeq(FullSnapshot(u, i, x), 1, n) :
        u \in 0..MaxCounter, i \in 0..MaxCounter, x \in 0..MaxExtra,
        n \in 0..MaxFields}

ComputeSnapshots == EnumSnapshots \cup RunSnapshots

\* the fields of an enumerated first-token-"cpu" line
FieldTokens ==
    {<<"0">>, <<"1", "2">>, <<"-", "3">>, <<"-", "0">>, <<"+", "5">>,
     <<"1", "x">>}

TokenLists == UNION {[1..n -> FieldTokens] : n \in 0..MaxTokens}

\* " t1 t2 ...": every token preceded by one space
RECURSIVE JoinTokens(_)
JoinTokens(toks) ==
    IF toks = <<>>
    THEN <<>>
    ELSE <<SP>> \o Head(toks) \o JoinTokens(Tail(toks))

\* "cpu", by itself or followed by a space, then the fields
AggLines ==
    {<<"c", "p", "u">> \o lead \o JoinTokens(toks) :
        lead \in {<<>>, <<SP>>}, toks \in TokenLists}

\* a per-core line, another line, an empty line
OtherLines ==
    {<<"c", "p", "u", "0", SP, "9", SP, "9", SP, "9", SP, "9">>,
     <<"i", "n", "t", "r", SP, "1">>,
     <<>>}

PrefixLines == UNION {[1..n -> OtherLines] : n \in 0..MaxPrefixLines}

TrailingLines ==
    {<<>>, <<<<"c", "p", "u", "1", SP, "8", SP, "8", SP, "8", SP, "8">>>>}

\* the text of a file made of lines, each ended by a newline
RECURSIVE FileOf(_)
FileOf(lines) ==
    IF lines = <<>>
    THEN <<>>
    ELSE Head(lines) \o <<NL>> \o FileOf(Tail(lines))

\* files with at most one first-token-"cpu" line, standing anywhere
CaptureFiles ==
    {FileOf(p \o a \o t) :
        p \in PrefixLines,
        a \in {<<>>} \cup {<<l>> : l \in AggLines},
        t \in TrailingLines}

----------------------------------------------------------------------------
(* The __main__ block.                                                     *)

Call(op, a, b) == [op |-> op, a |-> a, b |-> b]

\* an exception nobody catches: the interpreter prints the traceback and
\* the process ends with status 1
Uncaught(e) ==
    /\ error' = e
    /\ exit_code' = <<1>>
    /\ pc' = "done"

\* a subprocess step that goes on whatever the subprocess did
AfterSubprocessGoOn(r, next) ==
    /\ pc' = next
    /\ UNCHANGED <<exit_code, error>>

\* a subprocess step of __main__: ends the process, or goes on to next
AfterSubprocess(r, next) ==
    IF r.exit # <<>>
    THEN /\ exit_code' = r.exit
         /\ pc' = "done"
         /\ error' = error
    ELSE IF r.err # "none"
         THEN Uncaught(r.err)
         ELSE /\ pc' = next
              /\ UNCHANGED <<exit_code, error>>

\* lines 125-127: blockdev --flushbufs
Flush ==
    /\ pc = "flush"
    /\ \E o \in Outcomes :
          /\ flush_res' = <<o>>
          /\ trace' = Append(trace, Call("flush", <<>>, <<>>))
          /\ AfterSubprocess(run_check_subprocess(o), "capture_start")
    /\ UNCHANGED <<max_load, verbose, stat_file, read_res, start_load,
                   end_load, cpu_load, out>>

\* lines 128-131: start_load = get_cpu_load(), then the verbose print
CaptureStart ==
    /\ pc = "capture_start"
    /\ LET r == get_cpu_load(stat_file)
       IN  /\ trace' = Append(trace, Call("capture_start", r.val, <<>>))
           /\ IF r.err # "none"
              THEN /\ Uncaught(r.err)
                   /\ UNCHANGED <<start_load, out>>
              ELSE /\ start_load' = <<r.val>>
                   /\ out' = IF verbose THEN Append(out, "begin_read") ELSE out
                   /\ pc' = "read"
                   /\ UNCHANGED <<error, exit_code>>
    /\ UNCHANGED <<max_load, verbose, stat_file, flush_res, read_res,
                   end_load, cpu_load>>

\* lines 133-146: dd, then the verbose print.  The counters of
\* STAT_FILE_PATH move while dd runs.
ReadDisk ==
    /\ pc = "read"
    /\ \E o \in Outcomes :
          /\ read_res' = <<o>>
          /\ trace' = Append(trace, Call("read", <<>>, <<>>))
          /\ AfterSubprocess(run_check_subprocess(o), "capture_end")
          /\ out' = IF verbose /\ Succeeded(o)
                    THEN Append(out, "read_complete")
                    ELSE out
    /\ stat_file' \in RunStatFiles
    /\ UNCHANGED <<max_load, verbose, flush_res, start_load, end_load,
                   cpu_load>>

\* line 148: end_load = get_cpu_load()
CaptureEnd ==
    /\ pc = "capture_end"
    /\ LET r == get_cpu_load(stat_file)
       IN  /\ trace' = Append(trace, Call("capture_end", r.val, <<>>))
           /\ IF r.err # "none"
              THEN /\ Uncaught(r.err)
                   /\ UNCHANGED end_load
              ELSE /\ end_load' = <<r.val>>
                   /\ pc' = "compute"
                   /\ UNCHANGED <<error, exit_code>>
    /\ UNCHANGED <<max_load, verbose, stat_file, flush_res, read_res,
                   start_load, cpu_load, out>>

\* Compute with the two snapshots passed in the wrong order
ComputeSwapped ==
    /\ pc = "compute"
    /\ LET r == compute_cpu_load(end_load[1], start_load[1])
       IN  /\ trace' = Append(trace,
                              Call("compute", end_load[1], start_load[1]))
           /\ IF r.err # "none"
              THEN /\ Uncaught(r.err)
                   /\ UNCHANGED <<cpu_load, out>>
              ELSE /\ cpu_load' = <<r.val>>
                   /\ out' = IF verbose THEN Append(out, "cpu_times") ELSE out
                   /\ pc' = "compare"
                   /\ UNCHANGED <<error, exit_code>>
    /\ UNCHANGED <<max_load, verbose, stat_file, flush_res, read_res,
                   start_load, end_load>>

\* line 150: cpu_load = compute_cpu_load(start_load, end_load, verbose);
\* the function prints its four quantities in verbose mode (lines 80-87)
Compute ==
    /\ pc = "compute"
    /\ LET r == compute_cpu_load(start_load[1], end_load[1])
       IN  /\ trace' = Append(trace,
                              Call("compute", start_load[1], end_load[1]))
           /\ IF r.err # "none"
              THEN /\ Uncaught(r.err)
                   /\ UNCHANGED <<cpu_load, out>>
              ELSE /\ cpu_load' = <<r.val>>
                   /\ out' = IF verbose THEN Append(out, "cpu_times") ELSE out
                   /\ pc' = "compare"
                   /\ UNCHANGED <<error, exit_code>>
    /\ UNCHANGED <<max_load, verbose, stat_file, flush_res, read_res,
                   start_load, end_load>>

\* Compare that fails a load equal to the threshold
CompareGe ==
    /\ pc = "compare"
    /\ trace' = Append(trace, Call("compare", cpu_load, <<max_load>>))
    /\ IF cpu_load[1] >= max_load
       THEN /\ out' = out \o <<"detected", "failed">>
            /\ exit_code' = <<1>>
       ELSE /\ out' = Append(out, "detected")
            /\ exit_code' = <<0>>
    /\ pc' = "done"
    /\ UNCHANGED <<max_load, verbose, stat_file, flush_res, read_res,
                   start_load, end_load, cpu_load, error>>

\* lines 152-155: report the load, sys.exit(1) above the threshold;
\* otherwise the script ends and the process exits with status 0
Compare ==
    /\ pc = "compare"
    /\ trace' = Append(trace, Call("compare", cpu_load, <<max_load>>))
    /\ IF cpu_load[1] > max_load
       THEN /\ out' = out \o <<"detected", "failed">>
            /\ exit_code' = <<1>>
       ELSE /\ out' = Append(out, "detected")
            /\ exit_code' = <<0>>
    /\ pc' = "done"
    /\ UNCHANGED <<max_load, verbose, stat_file, flush_res, read_res,
                   start_load, end_load, cpu_load, error>>

----------------------------------------------------------------------------
(* Specifications.                                                         *)

Ok == [spawned |-> TRUE, rc |-> 0]

\* the whole run: the options are parsed and the banner (lines 118-123) is
\* printed
Init ==
    /\ pc = "flush"
    /\ max_load \in MaxLoads
    /\ verbose \in BOOLEAN
    /\ stat_file \in RunStatFiles
    /\ flush_res = <<>>
    /\ read_res = <<>>
    /\ start_load = <<>>
    /\ end_load = <<>>
    /\ cpu_load = <<>>
    /\ out = <<"banner">>
    /\ error = "none"
    /\ exit_code = <<>>
    /\ trace = <<>>

Next == Flush \/ CaptureStart \/ ReadDisk \/ CaptureEnd \/ Compute \/ Compare

Spec == Init /\ [][Next]_vars

\* get_cpu_load on every enumerated file: the run stands before line 128,
\* the flush has succeeded
InitCapture ==
    /\ pc = "capture_start"
    /\ max_load = DefaultMaxLoad
    /\ verbose = FALSE
    /\ stat_file \in CaptureFiles
    /\ flush_res = <<Ok>>
    /\ read_res = <<>>
    /\ start_load = <<>>
    /\ end_load = <<>>
    /\ cpu_load = <<>>
    /\ out = <<"banner">>
    /\ error = "none"
    /\ exit_code = <<>>
    /\ trace = <<Call("flush", <<>>, <<>>)>>

NextCapture == CaptureStart

SpecCapture == InitCapture /\ [][NextCapture]_vars

\* compute_cpu_load on every pair of enumerated snapshots: the run stands
\* before line 150, both subprocesses have succeeded and both snapshots
\* were read
InitCompute ==
    \E s \in ComputeSnapshots, e \in ComputeSnapshots :
        /\ pc = "compute"
        /\ max_load = DefaultMaxLoad
        /\ verbose = FALSE
        /\ stat_file = StatText(e)
        /\ flush_res = <<Ok>>
        /\ read_res = <<Ok>>
        /\ start_load = <<s>>
        /\ end_load = <<e>>
        /\ cpu_load = <<>>
        /\ out = <<"banner">>
        /\ error = "none"
        /\ exit_code = <<>>
        /\ trace = <<Call("flush", <<>>, <<>>), Call("capture_start", s, <<>>),
                     Call("read", <<>>, <<>>), Call("capture_end", e, <<>>)>>

NextCompute == Compute \/ Compare

SpecCompute == InitCompute /\ [][NextCompute]_vars

----------------------------------------------------------------------------
(* Properties of the run (Spec).                                           *)

Order ==
    <<"flush", "capture_start", "read", "capture_end", "compute", "compare">>

Ops == {trace[k].op : k \in 1..Len(trace)}

Count(op) == Cardinality({k \in 1..Len(trace) : trace[k].op = op})

\* the subprocess ran and ended with a non-zero status
NonZero(res) == res # <<>> /\ res[1].spawned /\ res[1].rc # 0

\* the subprocess ran and failed: non-zero status, or it could not start
Failed(res) == res # <<>> /\ ~Succeeded(res[1])

\* C1: the calls of a run are a prefix of flush, capture(start), read,
\* capture(end), compute, compare, in that order; each snapshot variable
\* holds what its capture returned; compute receives the snapshot of the
\* first capture as start and that of the second as end, and the comparison
\* is made on what compute returned.
C1_FixedOrder ==
    /\ Len(trace) <= Len(Order)
    /\ \A k \in 1..Len(trace) : trace[k].op = Order[k]
    /\ start_load # <<>> => Len(trace) >= 2 /\ start_load[1] = trace[2].a
    /\ end_load # <<>> => Len(trace) >= 4 /\ end_load[1] = trace[4].a
    /\ Len(trace) >= 5 => trace[5].a = trace[2].a /\ trace[5].b = trace[4].a
    /\ cpu_load # <<>> =>
          /\ Len(trace) >= 5
          /\ cpu_load[1] = compute_cpu_load(trace[2].a, trace[4].a).val
    /\ Len(trace) = 6 => trace[6].a = cpu_load

\* a whole run whose two snapshots differ
C1_Witness ==
    /\ pc = "done"
    /\ Len(trace) = 6
    /\ trace[2].a # trace[4].a
    /\ cpu_load = <<50>>

\* C2: once the flush has ended with a non-zero status the process has
\* ended with a non-zero status, no snapshot was captured and dd was not
\* run.
C2_FlushFailureAborts ==
    NonZero(flush_res) =>
        /\ pc = "done"
        /\ exit_code # <<>> /\ exit_code[1] # 0
        /\ start_load = <<>> /\ end_load = <<>>
        /\ read_res = <<>>
        /\ Ops = {"flush"}

C2_Witness ==
    /\ NonZero(flush_res)
    /\ flush_res[1].rc = MaxRc
    /\ pc = "done"

\* C3: a run that has ended has status 0 exactly when both subprocesses
\* succeeded and the load was computed and is at most max_load; it has
\* status 1 when a subprocess failed or the load is above max_load; with
\* max_load 30 and load 50 the failure is reported.
C3_ExitCode ==
    pc = "done" =>
        /\ exit_code # <<>>
        /\ exit_code[1] = 0 <=>
              /\ flush_res # <<>> /\ Succeeded(flush_res[1])
              /\ read_res # <<>> /\ Succeeded(read_res[1])
              /\ cpu_load # <<>> /\ cpu_load[1] <= max_load
        /\ (Failed(flush_res) \/ Failed(read_res)
               \/ (cpu_load # <<>> /\ cpu_load[1] > max_load))
              => exit_code[1] = 1
        /\ (max_load = 30 /\ cpu_load = <<50>>) =>
              /\ exit_code[1] # 0
              /\ out[Len(out)] = "failed"

\* a load equal to the threshold: the run succeeds
C3_Witness ==
    /\ pc = "done"
    /\ cpu_load = <<max_load>>
    /\ exit_code = <<0>>

\* C4: when the flush or dd ends with a non-zero status c the process ends
\* with status c; status 1 stands for a failure without a status.
C4_ExitMirrorsStatus ==
    /\ NonZero(flush_res) => exit_code = <<flush_res[1].rc>>
    /\ NonZero(read_res) => exit_code = <<read_res[1].rc>>
    /\ ((Failed(flush_res) /\ ~NonZero(flush_res))
           \/ (Failed(read_res) /\ ~NonZero(read_res)))
          => exit_code = <<1>>

\* C6: the flush and dd are each run at most once; a failure of either
\* ends the run there; after a failed dd there is no end snapshot, no load
\* and no reported result.
C6_NoRetry ==
    /\ Count("flush") <= 1
    /\ Count("read") <= 1
    /\ Failed(flush_res) =>
          /\ pc = "done" /\ exit_code # <<>>
          /\ trace[Len(trace)].op = "flush"
    /\ Failed(read_res) =>
          /\ pc = "done" /\ exit_code # <<>>
          /\ trace[Len(trace)].op = "read"
          /\ end_load = <<>>
          /\ cpu_load = <<>>
          /\ \A k \in 1..Len(out) : out[k] \notin {"detected", "failed"}

C6_Witness ==
    /\ Failed(read_res)
    /\ start_load # <<>>
    /\ pc = "done"

----------------------------------------------------------------------------
(* Properties of compute_cpu_load (SpecCompute).                           *)

Computed == "compute" \in Ops

HasIdle(snap) == Len(snap) >= 4

\* sum of the counters, by index
RECURSIVE TotalUpTo(_, _)
TotalUpTo(snap, n) == IF n = 0 THEN 0 ELSE TotalUpTo(snap, n - 1) + snap[n]

Total(snap) == TotalUpTo(snap, Len(snap))

\* r is the floor of num / den, den # 0
IsFloor(r, num, den) ==
    IF den > 0
    THEN r * den <= num /\ num < (r + 1) * den
    ELSE r * den >= num /\ num > (r + 1) * den

\* C5: the load returned for (start, end) is 0 when diffTotal is 0 and
\* otherwise the floor of diffUsed * 100 / diffTotal, also when that
\* quotient is negative; start = [10,0,0,90,0], end = [20,0,0,100,0] gives
\* 50.
C5_FloorOfUsedOverTotal ==
    cpu_load # <<>> =>
        LET start == start_load[1]
            end == end_load[1]
            diffIdle == end[4] - start[4]
            diffTotal == Total(end) - Total(start)
            diffUsed == diffTotal - diffIdle
        IN  /\ diffTotal = 0 => cpu_load[1] = 0
            /\ diffTotal # 0 => IsFloor(cpu_load[1], diffUsed * 100, diffTotal)
            /\ (start = <<10, 0, 0, 90, 0>> /\ end = <<20, 0, 0, 100, 0>>)
                  => cpu_load[1] = 50

\* a negative quotient that is no integer: -100 / 3
C5_Witness ==
    /\ start_load = <<<<1, 0, 0, 0>>>>
    /\ end_load = <<<<0, 0, 0, 4>>>>
    /\ cpu_load = <<-34>>

\* C8: compute returns an integer for every pair of snapshots, of any
\* lengths: it never raises.
C8_NeverFails ==
    Computed => error = "none" /\ cpu_load # <<>> /\ cpu_load[1] \in Int

\* C8, amended: compute returns an integer for every pair of snapshots that
\* hold at least 4 counters each, also when their lengths differ; it raises
\* IndexError when either holds fewer than 4.
C8_NeverFailsWithIdle ==
    Computed =>
        IF HasIdle(start_load[1]) /\ HasIdle(end_load[1])
        THEN error = "none" /\ cpu_load # <<>> /\ cpu_load[1] \in Int
        ELSE error = "IndexError" /\ cpu_load = <<>>

\* snapshots of 4 and 5 counters
C8_Witness ==
    /\ Computed
    /\ Len(start_load[1]) = 4
    /\ Len(end_load[1]) = 5
    /\ cpu_load # <<>>

\* C10: the load returned is a percentage, 0 <= r <= 100.
C10_LoadIsPercentage ==
    cpu_load # <<>> => 0 <= cpu_load[1] /\ cpu_load[1] <= 100

----------------------------------------------------------------------------
(* Properties of get_cpu_load (SpecCapture).                               *)

Captured == "capture_start" \in Ops

\* the whitespace-separated tokens of a line
Words(line) == FilterNonEmpty(SplitOn(line, SP))

FileLines(text) == SplitOn(text, NL)

IsAggregate(line) == Words(line) # <<>> /\ Words(line)[1] = <<"c", "p", "u">>

\* <<k>> for the first line k whose first token is exactly cpu, else <<>>
AggregateAt(text) ==
    LET ls == FileLines(text)
        ks == {k \in 1..Len(ls) : IsAggregate(ls[k])}
    IN  IF ks = {}
        THEN <<>>
        ELSE <<CHOOSE k \in ks : \A j \in ks : k <= j>>

\* the tokens after cpu on the aggregate line
AggregateFields(text) == Tail(Words(FileLines(text)[AggregateAt(text)[1]]))

Unsigned(tok) ==
    IF tok # <<>> /\ tok[1] \in {"+", "-"} THEN Tail(tok) ELSE tok

\* the token is written as an integer
IsIntToken(tok) ==
    /\ Unsigned(tok) # <<>>
    /\ \A i \in 1..Len(Unsigned(tok)) : IsDigit(Unsigned(tok)[i])

TokenValue(tok) ==
    IF tok[1] = "-" THEN 0 - DigitsValue(Unsigned(tok))
    ELSE DigitsValue(Unsigned(tok))

IsNonNegToken(tok) == IsIntToken(tok) /\ TokenValue(tok) >= 0

CaptureFailed ==
    /\ error \in {"AttributeError", "ValueError"}
    /\ start_load = <<>>
    /\ pc = "done"

\* C7: on a source whose aggregate line is missing or has a field that is
\* no non-negative integer, capture fails and returns no snapshot.
C7_MalformedNeverReturns ==
    (Captured /\ (AggregateAt(stat_file) = <<>>
                    \/ \E i \in 1..Len(AggregateFields(stat_file)) :
                          ~IsNonNegToken(AggregateFields(stat_file)[i])))
        => CaptureFailed

\* C7, amended: on a source whose aggregate line is missing or has a field
\* that is no integer, capture fails and returns no snapshot, not even the
\* fields that did parse.  A negative number is an integer: when every
\* field is an integer, on a first line that starts with "cpu" and a space,
\* the snapshot is returned with the negative values in it.
C7_NonIntegerNeverReturns ==
    /\ (Captured /\ (AggregateAt(stat_file) = <<>>
                       \/ \E i \in 1..Len(AggregateFields(stat_file)) :
                             ~IsIntToken(AggregateFields(stat_file)[i])))
          => CaptureFailed
    /\ (Captured /\ AggregateAt(stat_file) = <<1>>
                 /\ Len(FileLines(stat_file)[1]) >= 4
                 /\ FileLines(stat_file)[1][4] = SP
                 /\ \A i \in 1..Len(AggregateFields(stat_file)) :
                       IsIntToken(AggregateFields(stat_file)[i]))
          => /\ error = "none"
             /\ start_load =
                   <<[i \in 1..Len(AggregateFields(stat_file)) |->
                        TokenValue(AggregateFields(stat_file)[i])]>>

\* the aggregate line is first, its first field is a number and a later one
\* is not
C7_Witness ==
    /\ Captured
    /\ AggregateAt(stat_file) = <<1>>
    /\ Len(AggregateFields(stat_file)) >= 2
    /\ IsIntToken(AggregateFields(stat_file)[1])
    /\ ~IsIntToken(AggregateFields(stat_file)[2])
    /\ CaptureFailed

\* C9: on a source with a line whose first token is exactly cpu (followed
\* by at least one field, all of them integers), capture returns the
\* integers of that line in order, wherever the line stands.
C9_ReadsAggregateLineAnywhere ==
    (Captured /\ AggregateAt(stat_file) # <<>>
              /\ AggregateFields(stat_file) # <<>>
              /\ \A i \in 1..Len(AggregateFields(stat_file)) :
                    IsIntToken(AggregateFields(stat_file)[i]))
        => /\ error = "none"
           /\ start_load =
                 <<[i \in 1..Len(AggregateFields(stat_file)) |->
                      TokenValue(AggregateFields(stat_file)[i])]>>

====
